---- MODULE Spec2Model ----
(***************************************************************************)
(* Adafruit_CircuitPython_Debouncer: the Debouncer bounce filter and the   *)
(* Button gesture classifier built on it (src/adafruit_debouncer.py),      *)
(* driven by a polling loop, a raw boolean sampler and the wrapping        *)
(* millisecond tick counter of adafruit_ticks.                             *)
(*                                                                         *)
(* One Button object is modelled; its Debouncer part is the superclass     *)
(* state, and Button.update runs Debouncer.update first.                   *)
(***************************************************************************)
EXTENDS Integers, Sequences, FiniteSets, TLC

(***************************************************************************)
(* Bounds of the model.                                                    *)
(***************************************************************************)
\* the real time the model follows the program for, in ms
MaxTime == 8
\* the longest sleep between two update calls of the polling loop, in ms
\* (update MUST be called frequently)
MaxGap == 2
\* the most the clock advances between the two ticks_ms() reads of one
\* Button.update call (lines 89 and 195/198/202)
MaxSkew == 1
\* the largest debounce interval a caller passes, in ms
MaxInterval == 2
\* a float number of seconds is modelled as a whole number of
\* 1/(SubTick * _TICKS_PER_SEC) seconds, so that intervals that are not a
\* whole number of ticks exist
SubTick == 2
\* the short_duration_ms and long_duration_ms the Button is constructed with
ShortMs == 2
LongMs == 4
\* the most pressed edges that wait in short_counter
MaxPresses == 2
\* SpecLive: the most changes of the raw signal before it stays constant
MaxChanges == 2

(***************************************************************************)
(* Program constants.                                                      *)
(***************************************************************************)
DEBOUNCED_STATE == 1
UNSTABLE_STATE == 2
CHANGED_STATE == 4
TICKS_PER_SEC == 1000

\* adafruit_ticks: _TICKS_PERIOD (1 << 29 in the library, scaled down),
\* _TICKS_MAX and _TICKS_HALFPERIOD
TICKS_PERIOD == 32
TICKS_MAX == TICKS_PERIOD - 1
TICKS_HALFPERIOD == TICKS_PERIOD \div 2

VARIABLES
    \* ---- the environment
    t,                    \* real time since the model starts, in ms
    boot,                 \* what ticks_ms() reads at real time 0
    pin,                  \* what self.function() returns now
    \* ---- Debouncer
    state,                \* self.state, the bit mask
    last_bounce_ticks,    \* self._last_bounce_ticks
    last_duration_ticks,  \* self._last_duration_ticks
    state_changed_ticks,  \* self._state_changed_ticks
    interval_ticks,       \* self._interval_ticks, in 1/SubTick ticks
    \* ---- Button
    value_when_pressed,   \* self.value_when_pressed
    last_change_ms,       \* self.last_change_ms
    short_counter,        \* self.short_counter
    short_to_show,        \* self.short_to_show
    long_registered,      \* self.long_registered
    long_to_show,         \* self.long_to_show
    \* ---- history, read by the properties only
    h                     \* a record of what the updates did, see HInit

env == <<t, boot, pin>>
deb == <<state, last_bounce_ticks, last_duration_ticks, state_changed_ticks>>
btn == <<value_when_pressed, last_change_ms, short_counter, short_to_show,
         long_registered, long_to_show>>
vars == <<env, deb, interval_ticks, btn, h>>

(***************************************************************************)
(* Bit mask helpers: Python's |, & ~ and ^ on the three state bits.        *)
(***************************************************************************)
Bits == {DEBOUNCED_STATE, UNSTABLE_STATE, CHANGED_STATE}

HasBit(s, b) == (s \div b) % 2 = 1

\* the bit b if c, no bit otherwise
BitIf(c, b) == IF c THEN b ELSE 0

\* self.state |= bits
SetState(s, bits) ==
      BitIf(HasBit(s, DEBOUNCED_STATE) \/ HasBit(bits, DEBOUNCED_STATE), DEBOUNCED_STATE)
    + BitIf(HasBit(s, UNSTABLE_STATE) \/ HasBit(bits, UNSTABLE_STATE), UNSTABLE_STATE)
    + BitIf(HasBit(s, CHANGED_STATE) \/ HasBit(bits, CHANGED_STATE), CHANGED_STATE)

\* a slip: the bits are never cleared
UnsetStateForgotten(s, bits) == s

\* self.state &= ~bits
UnsetState(s, bits) ==
      BitIf(HasBit(s, DEBOUNCED_STATE) /\ ~HasBit(bits, DEBOUNCED_STATE), DEBOUNCED_STATE)
    + BitIf(HasBit(s, UNSTABLE_STATE) /\ ~HasBit(bits, UNSTABLE_STATE), UNSTABLE_STATE)
    + BitIf(HasBit(s, CHANGED_STATE) /\ ~HasBit(bits, CHANGED_STATE), CHANGED_STATE)

\* self.state ^= bits
ToggleState(s, bits) ==
      BitIf(HasBit(s, DEBOUNCED_STATE) # HasBit(bits, DEBOUNCED_STATE), DEBOUNCED_STATE)
    + BitIf(HasBit(s, UNSTABLE_STATE) # HasBit(bits, UNSTABLE_STATE), UNSTABLE_STATE)
    + BitIf(HasBit(s, CHANGED_STATE) # HasBit(bits, CHANGED_STATE), CHANGED_STATE)

\* (self.state & bits) != 0
GetState(s, bits) ==
    \/ HasBit(s, DEBOUNCED_STATE) /\ HasBit(bits, DEBOUNCED_STATE)
    \/ HasBit(s, UNSTABLE_STATE) /\ HasBit(bits, UNSTABLE_STATE)
    \/ HasBit(s, CHANGED_STATE) /\ HasBit(bits, CHANGED_STATE)

(***************************************************************************)
(* adafruit_ticks.                                                         *)
(***************************************************************************)
\* ticks_ms() at real time now
ticks_ms(now) == (boot + now) % TICKS_PERIOD

\* a slip: raw subtraction of two tick values
ticks_diffRaw(ticks1, ticks2) == ticks1 - ticks2

\* ticks_diff(ticks1, ticks2): the signed difference, in
\* -_TICKS_HALFPERIOD .. _TICKS_HALFPERIOD - 1
ticks_diff(ticks1, ticks2) ==
    LET diff == (ticks1 - ticks2) % TICKS_PERIOD
    IN  ((diff + TICKS_HALFPERIOD) % TICKS_PERIOD) - TICKS_HALFPERIOD

(***************************************************************************)
(* Intervals. A caller gives seconds; n stands for n / (SubTick *          *)
(* TICKS_PER_SEC) seconds, and interval_ticks holds SubTick times the      *)
(* number of ticks.                                                        *)
(***************************************************************************)
Seconds == (0 - SubTick) .. (MaxInterval * SubTick)

\* Python's int(): truncation towards zero of num / den
IntTrunc(num, den) == IF num >= 0 THEN num \div den ELSE 0 - ((0 - num) \div den)

\* Debouncer.__init__: int(interval * _TICKS_PER_SEC)
InitIntervalTicks(interval) ==
    SubTick * IntTrunc(interval * TICKS_PER_SEC, SubTick * TICKS_PER_SEC)

\* interval.setter: new_interval_s * _TICKS_PER_SEC, a float
SetIntervalTicks(new_interval_s) ==
    (new_interval_s * TICKS_PER_SEC) \div TICKS_PER_SEC

\* a slip: the interval is taken to be over one tick early
IntervalElapsedEarly(now_ticks, bounce_ticks, ivl) ==
    (ticks_diff(now_ticks, bounce_ticks) + 1) * SubTick >= ivl

\* a slip: > for >=
IntervalElapsedStrict(now_ticks, bounce_ticks, ivl) ==
    ticks_diff(now_ticks, bounce_ticks) * SubTick > ivl

\* ticks_diff(now_ticks, self._last_bounce_ticks) >= self._interval_ticks
IntervalElapsed(now_ticks, bounce_ticks, ivl) ==
    ticks_diff(now_ticks, bounce_ticks) * SubTick >= ivl

(***************************************************************************)
(* Debouncer accessors, on a state mask.                                   *)
(***************************************************************************)
Value(s) == GetState(s, DEBOUNCED_STATE)
Rose(s) == GetState(s, DEBOUNCED_STATE) /\ GetState(s, CHANGED_STATE)
Fell(s) == (~GetState(s, DEBOUNCED_STATE)) /\ GetState(s, CHANGED_STATE)

value == Value(state)
rose == Rose(state)
fell == Fell(state)
unstable_value == GetState(state, UNSTABLE_STATE)

\* a slip: the else of line 98 is missing, so the update that first sees
\* a sample goes on to the interval test
DebouncerUpdateFallThrough(now_ticks, current_state) ==
    LET s0 == UnsetState(state, CHANGED_STATE)
        keep == [state |-> s0,
                 last_bounce_ticks |-> last_bounce_ticks,
                 last_duration_ticks |-> last_duration_ticks,
                 state_changed_ticks |-> state_changed_ticks]
        first == IF current_state # GetState(s0, UNSTABLE_STATE)
                 THEN [keep EXCEPT !.last_bounce_ticks = now_ticks,
                                   !.state = ToggleState(s0, UNSTABLE_STATE)]
                 ELSE keep
    IN  IF IntervalElapsed(now_ticks, first.last_bounce_ticks, interval_ticks)
           /\ current_state # GetState(first.state, DEBOUNCED_STATE)
        THEN [first EXCEPT
                !.last_bounce_ticks = now_ticks,
                !.state = SetState(ToggleState(first.state, DEBOUNCED_STATE),
                                   CHANGED_STATE),
                !.last_duration_ticks =
                    ticks_diff(now_ticks, state_changed_ticks),
                !.state_changed_ticks = now_ticks]
        ELSE first

(***************************************************************************)
(* Debouncer.update: the Debouncer fields after an update that reads the   *)
(* clock as now_ticks and the sample as current_state.                     *)
(***************************************************************************)
DebouncerUpdate(now_ticks, current_state) ==
    LET s0 == UnsetState(state, CHANGED_STATE)
        keep == [state |-> s0,
                 last_bounce_ticks |-> last_bounce_ticks,
                 last_duration_ticks |-> last_duration_ticks,
                 state_changed_ticks |-> state_changed_ticks]
    IN  IF current_state # GetState(s0, UNSTABLE_STATE)
        THEN [keep EXCEPT !.last_bounce_ticks = now_ticks,
                          !.state = ToggleState(s0, UNSTABLE_STATE)]
        ELSE IF IntervalElapsed(now_ticks, last_bounce_ticks, interval_ticks)
                /\ current_state # GetState(s0, DEBOUNCED_STATE)
             THEN [keep EXCEPT
                     !.last_bounce_ticks = now_ticks,
                     !.state = SetState(ToggleState(s0, DEBOUNCED_STATE),
                                        CHANGED_STATE),
                     !.last_duration_ticks =
                         ticks_diff(now_ticks, state_changed_ticks),
                     !.state_changed_ticks = now_ticks]
             ELSE keep

\* a slip: "if not new_state" for "if new_state is None", so that a falsy
\* argument falls back to the sampler
CurrentStateTruthy(new_state) ==
    IF new_state = <<>> \/ new_state[1] = 0 THEN pin ELSE TRUE

\* the sample an update reads: self.function() or bool(new_state);
\* new_state is <<>> for None and <<n>> for the int n
CurrentState(new_state) ==
    IF new_state = <<>> THEN pin ELSE new_state[1] # 0

NewStates == {<<>>, <<0>>, <<1>>, <<2>>}

(***************************************************************************)
(* Button.                                                                 *)
(***************************************************************************)
short_duration_ms == ShortMs
long_duration_ms == LongMs

\* a slip: the polarity of pressed is reversed
PressedInverted(s) ==
    (value_when_pressed /\ Fell(s)) \/ (~value_when_pressed /\ Rose(s))

\* Button.pressed and Button.released, on a state mask
Pressed(s) == (value_when_pressed /\ Rose(s)) \/ (~value_when_pressed /\ Fell(s))
Released(s) == (value_when_pressed /\ Fell(s)) \/ (~value_when_pressed /\ Rose(s))

pressed == Pressed(state)
released == Released(state)
short_count == short_to_show
long_press == long_to_show

\* a slip: the long press is not remembered, so it is reported again
LongDueAgain(s, duration) ==
    /\ Value(s) = value_when_pressed
    /\ duration > long_duration_ms

\* lines 203-207: a long press is to be registered
LongDue(s, duration) ==
    /\ ~long_registered
    /\ Value(s) = value_when_pressed
    /\ duration > long_duration_ms

\* a slip: = for >, so a poll that comes later misses the end of the burst
ShortDueExact(s, duration) ==
    /\ short_counter > 0
    /\ Value(s) # value_when_pressed
    /\ duration = short_duration_ms + 1

\* a slip: >= for >
ShortDueEarly(s, duration) ==
    /\ short_counter > 0
    /\ Value(s) # value_when_pressed
    /\ duration >= short_duration_ms

\* lines 212-216: the burst of short presses has ended
ShortDue(s, duration) ==
    /\ short_counter > 0
    /\ Value(s) # value_when_pressed
    /\ duration > short_duration_ms

\* a slip: the held press is counted as a short one too
CountBeforeHoldAll(counter) == counter

\* line 210: the short presses before the one that is held
CountBeforeHold(counter) == counter - 1

\* a slip: the edge branches clear the reports as the last branch does
ButtonUpdateClearing(s, now_ms) ==
    LET keep == [last_change_ms |-> last_change_ms,
                 short_counter |-> short_counter,
                 short_to_show |-> short_to_show,
                 long_registered |-> long_registered,
                 long_to_show |-> long_to_show]
        duration == ticks_diff(now_ms, last_change_ms)
    IN  IF Pressed(s)
        THEN [keep EXCEPT !.last_change_ms = now_ms,
                          !.short_counter = short_counter + 1,
                          !.long_to_show = FALSE,
                          !.short_to_show = 0]
        ELSE IF Released(s)
        THEN [keep EXCEPT !.last_change_ms = now_ms,
                          !.long_registered = FALSE,
                          !.long_to_show = FALSE,
                          !.short_to_show = 0]
        ELSE IF LongDue(s, duration)
        THEN [keep EXCEPT !.long_registered = TRUE,
                          !.long_to_show = TRUE,
                          !.short_to_show = CountBeforeHold(short_counter),
                          !.short_counter = 0]
        ELSE IF ShortDue(s, duration)
        THEN [keep EXCEPT !.short_to_show = short_counter,
                          !.short_counter = 0]
        ELSE [keep EXCEPT !.long_to_show = FALSE,
                          !.short_to_show = 0]

\* the Button fields after the part of Button.update that follows
\* super().update(): s is the state mask that call left, now_ms what the
\* second ticks_ms() reads
ButtonUpdate(s, now_ms) ==
    LET keep == [last_change_ms |-> last_change_ms,
                 short_counter |-> short_counter,
                 short_to_show |-> short_to_show,
                 long_registered |-> long_registered,
                 long_to_show |-> long_to_show]
        duration == ticks_diff(now_ms, last_change_ms)
    IN  IF Pressed(s)
        THEN [keep EXCEPT !.last_change_ms = now_ms,
                          !.short_counter = short_counter + 1]
        ELSE IF Released(s)
        THEN [keep EXCEPT !.last_change_ms = now_ms,
                          !.long_registered = FALSE]
        ELSE IF LongDue(s, duration)
        THEN [keep EXCEPT !.long_registered = TRUE,
                          !.long_to_show = TRUE,
                          !.short_to_show = CountBeforeHold(short_counter),
                          !.short_counter = 0]
        ELSE IF ShortDue(s, duration)
        THEN [keep EXCEPT !.short_to_show = short_counter,
                          !.short_counter = 0]
        ELSE [keep EXCEPT !.long_to_show = FALSE,
                          !.short_to_show = 0]

(***************************************************************************)
(* History of the updates, for the properties: real times, which the       *)
(* program itself only knows modulo _TICKS_PERIOD.                         *)
(***************************************************************************)
HInit == [updates |-> 0,      \* 0 until the first update call, then 1
          sample |-> FALSE,   \* the sample the last update read
          seen |-> -1,        \* real time of the update that last toggled
                              \* the unstable bit, -1 while none has
          flip |-> -1,        \* real time of the last flip of value, -1
                              \* while there has been none
          raised |-> FALSE,   \* the setter has raised the interval since
                              \* the unstable bit was last toggled
          \* ---- Button
          edge |-> 0,         \* real time last_change_ms was last read at
          presses |-> 0,      \* pressed edges not yet due for a report
          over |-> 0,         \* those of them whose press was released
                              \* more than short_duration_ms after it
          clean |-> TRUE,     \* the edges of these presses are each less
                              \* than short_duration_ms apart
          hold |-> "none",    \* "fresh": pressed since a pressed edge, no
                              \* long press due yet; "long": pressed, the
                              \* long press was due; "none" otherwise
          run |-> "later",    \* "first": constructed released, no report
                              \* due yet; "done": the first burst was due
                              \* and the button has rested since; "later"
          read |-> <<>>,      \* <<n>>: the caller has read short_count
                              \* since the last update and got n
          changes |-> 0]      \* SpecLive: the times the raw signal changed

\* The history after a Button.update: what is due in it, by real time.
\* edge is "pressed", "released" or "none", what the update reported; held
\* tells that value is value_when_pressed after it; elapsed is the real
\* time from the last edge before it to its second clock read at now2.
Held(s) == Value(s) = value_when_pressed
EdgeOf(s) == IF Pressed(s) THEN "pressed"
             ELSE IF Released(s) THEN "released" ELSE "none"

DueLong(edge, held, elapsed) ==
    /\ edge = "none"
    /\ held
    /\ h.hold = "fresh"
    /\ elapsed > long_duration_ms

DueShort(edge, held, elapsed) ==
    /\ edge = "none"
    /\ ~held
    /\ h.presses > 0
    /\ elapsed > short_duration_ms

\* an edge that comes short_duration_ms or more after the edge before it
LateEdge(edge, elapsed) ==
    edge # "none" /\ h.presses > 0 /\ elapsed >= short_duration_ms

ButtonHistory(edge, held, now2, due, late) ==
    [edge |-> IF edge # "none" THEN now2 ELSE h.edge,
     presses |-> IF edge = "pressed" THEN h.presses + 1
                 ELSE IF due # "none" THEN 0
                 ELSE h.presses,
     over |-> IF due # "none" THEN 0
              ELSE IF edge = "released" /\ h.presses > 0
                      /\ now2 - h.edge > short_duration_ms
                   THEN h.over + 1
              ELSE h.over,
     clean |-> IF late THEN FALSE
               ELSE IF edge # "none" /\ h.presses = 0 THEN TRUE
               ELSE IF due # "none" THEN TRUE
               ELSE h.clean,
     hold |-> IF edge = "pressed" THEN "fresh"
              ELSE IF edge = "released" THEN "none"
              ELSE IF due = "long" THEN "long"
              ELSE h.hold,
     run |-> IF h.run = "first" /\ due = "short" THEN "done"
             ELSE IF h.run = "first" /\ edge = "none"
                     /\ ~(held /\ now2 - h.edge >= short_duration_ms)
                  THEN "first"
             ELSE IF h.run = "first" /\ edge # "none" /\ ~late
                  THEN "first"
             ELSE IF h.run = "done" /\ edge = "none" THEN "done"
             ELSE "later"]

(***************************************************************************)
(* Init: the state Debouncer.__init__ leaves, for every sampler reading,   *)
(* interval and clock start. The Button fields do not exist in a plain     *)
(* Debouncer; they rest at the values below.                               *)
(***************************************************************************)
Boots == {0, TICKS_HALFPERIOD - 2, TICKS_PERIOD - 3}

DebouncerInit(interval) ==
    /\ state = IF pin THEN SetState(0, SetState(DEBOUNCED_STATE, UNSTABLE_STATE))
                      ELSE 0
    /\ last_bounce_ticks = 0
    /\ last_duration_ticks = 0
    /\ state_changed_ticks = 0
    /\ interval_ticks = InitIntervalTicks(interval)

Init ==
    /\ t = 0
    /\ boot \in Boots
    /\ pin \in BOOLEAN
    /\ \E interval \in Seconds : DebouncerInit(interval)
    /\ value_when_pressed = FALSE
    /\ last_change_ms = 0
    /\ short_counter = 0
    /\ short_to_show = 0
    /\ long_registered = FALSE
    /\ long_to_show = FALSE
    /\ h = HInit

(***************************************************************************)
(* Actions of a Debouncer.                                                 *)
(***************************************************************************)
\* the raw signal changes (the tests' db.function = _true)
SetPin(v) ==
    /\ pin # v
    /\ pin' = v
    /\ UNCHANGED <<t, boot, deb, interval_ticks, btn, h>>

\* a slip: the setter also restarts the stability clock
SetIntervalRestart(new_interval_s) ==
    /\ interval_ticks' = SetIntervalTicks(new_interval_s)
    /\ last_bounce_ticks' = ticks_ms(t)
    /\ h' = [h EXCEPT !.raised = @ \/ interval_ticks' > interval_ticks]
    /\ UNCHANGED <<env, state, last_duration_ticks, state_changed_ticks, btn>>

\* db.interval = new_interval_s
SetInterval(new_interval_s) ==
    /\ interval_ticks' = SetIntervalTicks(new_interval_s)
    /\ h' = [h EXCEPT !.raised = @ \/ interval_ticks' > interval_ticks]
    /\ UNCHANGED <<env, deb, btn>>

\* Debouncer.update reading the sample current_state and the clock at real
\* time now
DebouncerUpdateCall(current_state, now) ==
    /\ \E d \in {DebouncerUpdate(ticks_ms(now), current_state)} :
       LET toggled == GetState(d.state, UNSTABLE_STATE) # unstable_value
           flipped == GetState(d.state, CHANGED_STATE)
       IN  /\ state' = d.state
           /\ last_bounce_ticks' = d.last_bounce_ticks
           /\ last_duration_ticks' = d.last_duration_ticks
           /\ state_changed_ticks' = d.state_changed_ticks
           /\ h' = [h EXCEPT !.updates = 1,
                             !.sample = current_state,
                             !.seen = IF toggled THEN now ELSE @,
                             !.flip = IF flipped THEN now ELSE @,
                             !.raised = IF toggled THEN FALSE ELSE @]
           /\ t' = now
    /\ UNCHANGED <<boot, pin, interval_ticks, btn>>

\* One turn of the polling loop: sleep, then Debouncer.update(new_state)
Update(new_state, sleep) ==
    /\ t + sleep <= MaxTime
    /\ DebouncerUpdateCall(CurrentState(new_state), t + sleep)

Next ==
    \/ \E v \in BOOLEAN : SetPin(v)
    \/ \E s \in Seconds : SetInterval(s)
    \/ \E n \in NewStates, sleep \in 0 .. MaxGap : Update(n, sleep)

Spec == Init /\ [][Next]_vars

(***************************************************************************)
(* A Button: Button.__init__ for every sampler reading, polarity and clock *)
(* start, and the intervals ButtonSeconds (passed on to Debouncer.__init__ *)
(* in kwargs).                                                             *)
(***************************************************************************)
ButtonSeconds == {0, SubTick}
ButtonBoots == {0, TICKS_PERIOD - 3}
\* what the polling loop passes to Button.update: nothing, or a sample
ButtonNewStates == {<<>>, <<0>>}

ButtonInit ==
    /\ t = 0
    /\ boot \in ButtonBoots
    /\ pin \in BOOLEAN
    /\ value_when_pressed \in BOOLEAN
    /\ last_change_ms = ticks_ms(0)
    /\ short_counter = 0
    /\ short_to_show = 0
    /\ long_registered = FALSE
    /\ long_to_show = FALSE
    /\ \E interval \in ButtonSeconds : DebouncerInit(interval)
    /\ h = [HInit EXCEPT !.run = IF Held(state) THEN "later" ELSE "first"]

\* Button.update reading the sample current_state; Debouncer.update reads
\* the clock at real time now and the rest of Button.update reads it again
\* skew later
ButtonUpdateCall(current_state, now, skew) ==
    /\ \E d \in {DebouncerUpdate(ticks_ms(now), current_state)} :
       \E b \in {ButtonUpdate(d.state, ticks_ms(now + skew))} :
       \E edge \in {EdgeOf(d.state)}, held \in {Held(d.state)},
          elapsed \in {now + skew - h.edge} :
       \E due \in {IF DueLong(edge, held, elapsed) THEN "long"
                    ELSE IF DueShort(edge, held, elapsed) THEN "short"
                    ELSE "none"},
          late \in {LateEdge(edge, elapsed)} :
       \E hb \in {ButtonHistory(edge, held, now + skew, due, late)} :
       LET toggled == GetState(d.state, UNSTABLE_STATE) # unstable_value
           flipped == GetState(d.state, CHANGED_STATE)
       IN  /\ state' = d.state
           /\ last_bounce_ticks' = d.last_bounce_ticks
           /\ last_duration_ticks' = d.last_duration_ticks
           /\ state_changed_ticks' = d.state_changed_ticks
           /\ last_change_ms' = b.last_change_ms
           /\ short_counter' = b.short_counter
           /\ short_to_show' = b.short_to_show
           /\ long_registered' = b.long_registered
           /\ long_to_show' = b.long_to_show
           /\ h' = [updates |-> 1,
                    sample |-> current_state,
                    seen |-> IF toggled THEN now ELSE h.seen,
                    flip |-> IF flipped THEN now ELSE h.flip,
                    raised |-> IF toggled THEN FALSE ELSE h.raised,
                    edge |-> hb.edge,
                    presses |-> hb.presses,
                    over |-> hb.over,
                    clean |-> hb.clean,
                    hold |-> hb.hold,
                    run |-> hb.run,
                    read |-> <<>>,
                    changes |-> h.changes]
           /\ t' = now + skew
    /\ UNCHANGED <<boot, pin, interval_ticks, value_when_pressed>>

\* One turn of the polling loop: sleep, then Button.update(new_state)
ButtonPoll(new_state, sleep, skew) ==
    /\ t + sleep + skew <= MaxTime
    /\ ButtonUpdateCall(CurrentState(new_state), t + sleep, skew)
    /\ short_counter' <= MaxPresses

ButtonNext ==
    \/ \E v \in BOOLEAN : SetPin(v)
    \/ \E n \in ButtonNewStates, sleep \in 0 .. MaxGap, skew \in 0 .. MaxSkew :
           ButtonPoll(n, sleep, skew)

SpecButton == ButtonInit /\ [][ButtonNext]_vars

(***************************************************************************)
(* Properties of the Debouncer, under Spec.                                *)
(***************************************************************************)
changed == GetState(state, CHANGED_STATE)

\* a step of the specification that is an update call
UpdateStep ==
    /\ (t' - t) \in 0 .. MaxGap
    /\ DebouncerUpdateCall(h'.sample, t')

\* C1. Bounce rejection: with an interval >= 0, value flips in an update
\* only if the sample read equals the unstable value the update found (so
\* the update is not the first to see that sample) and the interval has
\* elapsed, in real time, since the update that first saw the sample change.
C1_BounceRejection ==
    [][(value' # value /\ interval_ticks >= 0) =>
          /\ h'.sample = unstable_value
          /\ h'.sample = value'
          /\ (t' - h.seen) * SubTick >= interval_ticks]_vars

\* a flip, under an interval of MaxInterval ticks, of a value seen for
\* just that long
C1_Witness ==
    /\ changed
    /\ h.flip = t
    /\ interval_ticks = MaxInterval * SubTick
    /\ (h.flip - h.seen) * SubTick = interval_ticks

\* C2. Acceptance exactly once: an update that finds a candidate pending
\* (unstable value differs from value), reads that same sample and runs
\* when the interval has elapsed since the candidate was first seen flips
\* value to it; an update that reads the value already held never flips;
\* so after an update a candidate is pending only if it was first seen in
\* that update or the interval has not elapsed yet.
C2_AcceptedOnce ==
    [][UpdateStep =>
          /\ (/\ unstable_value # value
              /\ h'.sample = unstable_value
              /\ (t' - h.seen) * SubTick >= interval_ticks)
             => (value' = h'.sample /\ changed')
          /\ (h'.sample = value => value' = value)
          /\ (unstable_value' # value') =>
                \/ unstable_value' # unstable_value
                \/ (t' - h'.seen) * SubTick < interval_ticks]_vars

\* a flip that came later than the interval, by a whole polling step
C2_Witness ==
    /\ changed
    /\ h.flip = t
    /\ interval_ticks > 0
    /\ (h.flip - h.seen) * SubTick = interval_ticks + (MaxGap - 1) * SubTick

\* C3. Edge flags are single-cycle: after an update rose is true iff that
\* update flipped value from false to true, fell iff it flipped it from
\* true to false; they are never both true and are false after construction.
C3_EdgeFlags ==
    /\ [](~(rose /\ fell) /\ (h.updates = 0 => (~rose /\ ~fell)))
    /\ [][UpdateStep =>
            /\ rose' <=> (~value /\ value')
            /\ fell' <=> (value /\ ~value')]_vars

\* a falling edge reported by an update, after an earlier rising one
C3_Witness == fell /\ h.updates = 1 /\ h.flip = t /\ last_duration_ticks > 0

\* C8. Changing the interval takes effect on the next update: the setter
\* leaves _last_bounce_ticks (and the rest of the Debouncer) alone, and an
\* update that finds a candidate pending and reads it again accepts it iff
\* the interval in force at that update has elapsed since the candidate
\* was first seen.
C8_IntervalSetter ==
    /\ [][interval_ticks' # interval_ticks => UNCHANGED <<deb, t>>]_vars
    /\ [][(UpdateStep /\ unstable_value # value /\ h'.sample = unstable_value)
            => (changed' <=> (t' - h.seen) * SubTick >= interval_ticks)]_vars

\* a candidate that was accepted only when the interval the setter raised
\* while it was pending had elapsed
C8_Witness ==
    /\ changed
    /\ h.raised
    /\ h.flip = t
    /\ (h.flip - h.seen) * SubTick = interval_ticks
    /\ interval_ticks = MaxInterval * SubTick

\* C9. No Debouncer with a negative interval exists: interval >= 0 in
\* every reachable state.
C9_IntervalNonNegative == interval_ticks >= 0

\* what the clock reads at real time now, were it not to wrap
Clock(now) == boot + now

\* the state_changed_time before an update, on that clock: 0 until the
\* first flip
PreviousChange == IF h.flip < 0 THEN 0 ELSE Clock(h.flip)

\* C10. last_duration: an update that flips value sets last_duration to
\* the time elapsed on the clock between the previous state_changed_time
\* (clock reading 0 before the first flip) and this update, and
\* state_changed_time to the time of this update; any other update leaves
\* both alone, and last_duration is 0 until the first flip.
C10_LastDuration ==
    /\ [][UpdateStep =>
            IF changed'
            THEN /\ last_duration_ticks' = Clock(t') - PreviousChange
                 /\ state_changed_ticks' = ticks_ms(t')
            ELSE UNCHANGED <<last_duration_ticks, state_changed_ticks>>]_vars
    /\ [](h.updates = 0 => last_duration_ticks = 0)

(***************************************************************************)
(* Properties of the Button, under SpecButton.                             *)
(***************************************************************************)
\* a step of the specification that is a Button.update call
ButtonStep ==
    \E skew \in 0 .. MaxSkew :
        /\ (t' - skew - t) \in 0 .. MaxGap
        /\ ButtonUpdateCall(h'.sample, t' - skew, skew)

\* the step is a Button.update call that reports no edge
IdleStep == ButtonStep /\ ~pressed' /\ ~released'

\* C4. Multi-click count: for a Button constructed released, while the
\* edges come less than short_duration_ms apart and then the button rests
\* released, short_count is the number N >= 1 of pressed edges after the
\* first idle update that comes more than short_duration_ms after the last
\* edge, and 0 after every other update.
C4_MultiClick ==
    [][(ButtonStep /\ h.run # "later" /\ h'.run # "later") =>
          short_count' = IF h.run = "first" /\ h'.run = "done"
                         THEN h.presses ELSE 0]_vars

\* a double click has been reported and the button has rested since
C4_Witness ==
    /\ h.run = "done"
    /\ short_count = 2
    /\ h.presses = 0

\* C5. Long press once per hold: in an idle update of a hold that began
\* with a pressed edge, long_press becomes true iff this is the first
\* idle update of the hold at which more than long_duration_ms have
\* elapsed since the pressed edge.
C5_LongPressOnce ==
    [][(IdleStep /\ h.hold # "none") =>
          (long_press' <=> (h.hold = "fresh" /\ h'.hold = "long"))]_vars

\* an idle poll of a hold whose long press was reported by an earlier one
C5_Witness ==
    /\ h.hold = "long"
    /\ ~long_press
    /\ ~pressed /\ ~released
    /\ t - h.edge > long_duration_ms + 1

\* C6. Long press after clicks: when the last of N pressed edges, each
\* edge less than short_duration_ms after the one before, is held past
\* long_duration_ms, the update that reports the long press reports
\* short_count = N - 1 and empties the pending counter; the pending counter
\* always is the number of pressed edges no report was due for yet.
C6_LongAfterClicks ==
    /\ [](short_counter = h.presses)
    /\ [][(IdleStep /\ h.clean /\ h.hold = "fresh" /\ h'.hold = "long") =>
            /\ long_press'
            /\ short_count' = h.presses - 1
            /\ short_counter' = 0]_vars

\* a click and then a long press, reported together
C6_Witness ==
    /\ h.clean
    /\ h.hold = "long"
    /\ long_press
    /\ short_count = 1
    /\ short_counter = 0

\* C7. Reports are one-shot: after an update short_count is not 0 only if
\* that update finalized a burst (it emptied a pending counter, or it
\* recognized a long press), and long_press is true only if that update
\* recognized the long press; so no report outlives the next update.
C7_OneShot ==
    [][ButtonStep =>
          /\ short_count' # 0 =>
                \/ short_counter > 0 /\ short_counter' = 0
                \/ ~long_registered /\ long_registered'
          /\ long_press' => (~long_registered /\ long_registered')]_vars

(***************************************************************************)
(* Further properties of the Debouncer, under Spec.                        *)
(***************************************************************************)
\* Debouncer.current_duration read at real time now, in ticks (the
\* property divides by _TICKS_PER_SEC, which keeps sign and order)
current_duration(now) == ticks_diff(ticks_ms(now), state_changed_ticks)

\* C11. current_duration: read at any time from the last update on, until
\* the next one, it is not negative and does not decrease as the clock
\* advances; read at the clock value of an update that flipped value it
\* is 0.
C11_CurrentDuration ==
    /\ \A now \in t .. t + MaxGap :
          /\ current_duration(now) >= 0
          /\ current_duration(now + 1) >= current_duration(now)
    /\ changed => current_duration(t) = 0

\* a step of Spec that is not the environment's nor the setter's: every
\* other step is an update call, and an update call that changes no
\* variable has changed no field
CallStep == pin' = pin /\ interval_ticks' = interval_ticks

\* C17. First observation never flips: for every interval, an update whose
\* sample differs from the unstable value sets the unstable value to the
\* sample and _last_bounce_ticks to the clock and changes nothing else: not
\* value, and rose and fell are false after it, not the last duration, not
\* the time of the last change. Hence an update flips value only if the
\* update before it read the same sample.
C17_FirstObservation ==
    /\ [][(CallStep /\ h'.sample # unstable_value) =>
            /\ unstable_value' = h'.sample
            /\ last_bounce_ticks' = ticks_ms(t')
            /\ value' = value
            /\ ~rose' /\ ~fell'
            /\ UNCHANGED <<last_duration_ticks, state_changed_ticks>>]_vars
    /\ [][(CallStep /\ value' # value) =>
            (h.updates = 1 /\ h.sample = h'.sample)]_vars

\* with interval 0, an update has just seen a sample that differs from the
\* value, after an earlier flip, and has not flipped
C17_Witness ==
    /\ interval_ticks = 0
    /\ h.updates = 1
    /\ h.seen = t
    /\ h.flip >= 0
    /\ h.flip < t
    /\ h.sample # value
    /\ unstable_value = h.sample
    /\ ~changed

(***************************************************************************)
(* Wraparound, under SpecButton.                                           *)
(***************************************************************************)
\* the true time elapsed at real time now since _last_bounce_ticks was
\* written, by a flip or by a toggle of the unstable bit; until the first
\* write it holds the clock value 0
BounceElapsed(now) ==
    IF h.seen < 0 THEN Clock(now)
    ELSE now - (IF h.flip > h.seen THEN h.flip ELSE h.seen)

\* the true time elapsed at real time now since last_change_ms was read
ChangeElapsed(now) == now - h.edge

\* C12. Wraparound safety: in every reachable state and for every time
\* the next update may read the clock at, when the true elapsed time is
\* below half the tick period, the interval test of Debouncer.update and
\* the two dwell tests of Button.update decide as they would on the true
\* elapsed time, whether or not the counter wrapped in between.
C12_WrapSafe ==
    /\ \A now \in t .. t + MaxGap :
          BounceElapsed(now) < TICKS_HALFPERIOD =>
             (IntervalElapsed(ticks_ms(now), last_bounce_ticks, interval_ticks)
                <=> BounceElapsed(now) * SubTick >= interval_ticks)
    /\ \A now \in t .. t + MaxGap + MaxSkew :
          ChangeElapsed(now) < TICKS_HALFPERIOD =>
             \E duration \in {ticks_diff(ticks_ms(now), last_change_ms)} :
                /\ duration > long_duration_ms
                      <=> ChangeElapsed(now) > long_duration_ms
                /\ duration > short_duration_ms
                      <=> ChangeElapsed(now) > short_duration_ms

\* a click reported by an idle update that ran after the counter wrapped,
\* with both _last_bounce_ticks and last_change_ms read before the wrap
C12_Witness ==
    /\ short_count = 1
    /\ short_counter = 0
    /\ h.seen >= 0
    /\ ticks_ms(t) < last_change_ms
    /\ ticks_ms(t) < last_bounce_ticks
    /\ ChangeElapsed(t) > short_duration_ms

(***************************************************************************)
(* The new_state argument, under SpecButton.                               *)
(***************************************************************************)
\* the argument of update(v) for a boolean v: Python's False and True
\* are the ints 0 and 1
Override(v) == IF v THEN <<1>> ELSE <<0>>

\* the Debouncer and Button fields after a Button.update that reads the
\* sample current_state, at real times now and now + skew
ButtonResult(current_state, now, skew) ==
    LET d == DebouncerUpdate(ticks_ms(now), current_state)
    IN  <<d, ButtonUpdate(d.state, ticks_ms(now + skew))>>

\* the fields after update() at these clock readings, for each value the
\* sampler may return
UpdateResults(now, skew) ==
    [v \in BOOLEAN |-> ButtonResult(v, now, skew)]

\* C13. Override equivalence: in every reachable state, for every boolean
\* v and every clock reading of the next call, update(v) leaves the fields
\* update() leaves when the sampler returns v, whatever the sampler reads
\* at that moment; update() itself reads the sampler, also after calls
\* with an argument, and no update changes what the sampler reads.
C13_Override ==
    /\ [](\A now \in t .. t + MaxGap, skew \in 0 .. MaxSkew :
            \E after \in {UpdateResults(now, skew)} :
               \A v \in BOOLEAN :
                  /\ after[CurrentState(Override(v))] = after[v]
                  /\ pin = v => after[CurrentState(<<>>)] = after[v])
    /\ [][pin' # pin => UNCHANGED <<t, deb, btn, h>>]_vars

\* an update has read the sample False while the sampler reads True, and
\* that sample was accepted as a pressed edge
C13_Witness ==
    /\ h.updates = 1
    /\ h.sample = FALSE
    /\ pin = TRUE
    /\ h.flip = t
    /\ pressed
    /\ short_counter = 1

(***************************************************************************)
(* Further properties of the Button, under SpecButton.                     *)
(***************************************************************************)
\* a step that is not the environment's: every step but SetPin is a
\* Button.update call, and an update call that changes no variable found
\* the changed bit clear and left it so
PollStep == pin' = pin

\* C14. Polarity of pressed/released: for both values of
\* value_when_pressed, after a Button.update pressed is true iff the
\* update flipped value to value_when_pressed and released iff it flipped
\* value to the opposite; they are never both true and are both false when
\* the last update did not flip value.
C14_Polarity ==
    /\ [](~(pressed /\ released) /\ (~changed => (~pressed /\ ~released)))
    /\ [][PollStep =>
            /\ pressed' <=> (value' # value /\ value' = value_when_pressed)
            /\ released' <=> (value' # value /\ value' # value_when_pressed)]_vars

\* a Button that is pressed when high reports the pressed edge of a second
\* press, after a released edge
C14_Witness ==
    /\ value_when_pressed
    /\ pressed
    /\ value
    /\ h.flip = t
    /\ last_duration_ticks > 0
    /\ short_counter = 2

\* C15. short_duration_ms is the maximum length of a short press: an
\* update that reports no edge counts in short_count only pending presses
\* that were released at most short_duration_ms after their pressed edge
\* (and, when it reports a long press, not the press that is held).
C15_ShortPressLength ==
    [][(PollStep /\ ~pressed' /\ ~released') =>
          short_count' <= h.presses - h.over
                             - (IF long_press' THEN 1 ELSE 0)]_vars

C19_NonNegative == short_counter >= 0 /\ short_count >= 0

(***************************************************************************)
(* Reading the reports: the polling loop of examples/debouncer_multi.py,   *)
(* which calls update() and then reads short_count.                        *)
(***************************************************************************)
\* a slip: the getter clears the report it returns
ShortCountReadConsuming == [result |-> short_to_show, short_to_show |-> 0]

\* the short_count getter: what it returns and what it leaves in
\* self.short_to_show
ShortCountRead == [result |-> short_to_show, short_to_show |-> short_to_show]

\* count = switch.short_count
ReadShortCount ==
    /\ \E r \in {ShortCountRead} :
          /\ short_to_show' = r.short_to_show
          /\ h' = [h EXCEPT !.read = <<r.result>>]
    /\ UNCHANGED <<env, deb, interval_ticks, value_when_pressed,
                   last_change_ms, short_counter, long_registered,
                   long_to_show>>

\* switch.update()
ReadPoll(sleep, skew) == ButtonPoll(<<>>, sleep, skew)

ReadNext ==
    \/ \E v \in BOOLEAN : SetPin(v)
    \/ \E sleep \in 0 .. MaxGap, skew \in 0 .. MaxSkew : ReadPoll(sleep, skew)
    \/ ReadShortCount

SpecRead == ButtonInit /\ [][ReadNext]_vars

\* C16. Reading short_count consumes the report: once a read has returned
\* n > 0, and until the next update, the stored report is 0, which is what
\* a second read returns.
C16_ReadConsumes ==
    (h.read # <<>> /\ h.read[1] > 0) =>
        (short_to_show = 0 /\ ShortCountRead.result = 0)

\* C16, amended. Reading short_count is a pure read: once a read has
\* returned n, and until the next update, the stored report still is n,
\* which is what a second read returns; the read changes no field.
C16_ReadKeeps ==
    /\ [](h.read # <<>> =>
            (short_to_show = h.read[1] /\ ShortCountRead.result = h.read[1]))
    /\ [][ReadShortCount => UNCHANGED <<env, deb, interval_ticks, btn>>]_vars

\* a double click has been read
C16_Witness == h.read = <<2>> /\ short_counter = 0 /\ ~pressed /\ ~released

(***************************************************************************)
(* The polling loop for ever: update() keeps being called, the clock       *)
(* advances between the calls and wraps at _TICKS_PERIOD, and the raw      *)
(* signal changes MaxChanges times at most. Here t is kept modulo the      *)
(* period and the history, but for the count of changes, is not kept; the  *)
(* Button has the default polarity and both clock reads of an update fall  *)
(* in the same tick.                                                       *)
(***************************************************************************)
LiveInit == ButtonInit /\ boot = 0 /\ ~value_when_pressed

\* the raw signal changes
LiveSetPin ==
    /\ h.changes < MaxChanges
    /\ pin' = ~pin
    /\ h' = [h EXCEPT !.changes = @ + 1]
    /\ UNCHANGED <<t, boot, deb, interval_ticks, btn>>

\* time.sleep(sleep); switch.update()
LivePoll(sleep) ==
    /\ \E d \in {DebouncerUpdate(ticks_ms(t + sleep), pin)} :
       \E b \in {ButtonUpdate(d.state, ticks_ms(t + sleep))} :
          /\ state' = d.state
          /\ last_bounce_ticks' = d.last_bounce_ticks
          /\ last_duration_ticks' = d.last_duration_ticks
          /\ state_changed_ticks' = d.state_changed_ticks
          /\ last_change_ms' = b.last_change_ms
          /\ short_counter' = b.short_counter
          /\ short_to_show' = b.short_to_show
          /\ long_registered' = b.long_registered
          /\ long_to_show' = b.long_to_show
    /\ t' = (t + sleep) % TICKS_PERIOD
    /\ UNCHANGED <<boot, pin, interval_ticks, value_when_pressed, h>>

\* a turn of the loop in which the clock advances
LiveTurn == \E sleep \in 1 .. MaxGap : LivePoll(sleep)

LiveNext == LiveSetPin \/ LiveTurn

\* the loop never stops: while True
SpecLive == LiveInit /\ [][LiveNext]_vars /\ WF_vars(LiveTurn)

\* the state an update leaves when it has reported the pending presses:
\* at rest released with a count, or held with a long press
Reported ==
    /\ short_counter = 0
    /\ \/ ~Held(state) /\ short_count >= 1 /\ ~long_press
       \/ Held(state) /\ long_press /\ short_count >= 0

\* C20. No press stays pending forever: while update keeps being called
\* with the clock advancing, and the sample changes finitely often, every
\* state with short_counter > 0 is followed by one in which an update has
\* reset it to 0 and reported it; the update that resets it reports
\* short_count = the counter if the button then rests released, and the
\* counter minus 1 together with long_press if it is held; short_counter
\* > 0 never coexists with long_registered.
C20_NoPressPending ==
    /\ (short_counter > 0) ~> Reported
    /\ [][(pin' = pin /\ short_counter > 0 /\ short_counter' = 0) =>
            \/ ~Held(state') /\ short_count' = short_counter /\ ~long_press'
            \/ Held(state') /\ long_press' /\ short_count' = short_counter - 1]_vars
    /\ [](~(short_counter > 0 /\ long_registered))

\* after the last change of the signal a click has been reported, by an
\* update that ran after the clock wrapped
C20_Witness ==
    /\ h.changes = MaxChanges
    /\ Reported
    /\ short_count = 1
    /\ ticks_ms(t) < last_change_ms

====
